---- MODULE Spec2Model ----
(***************************************************************************)
(* Cooking-Assistance: the turn coordinator (src/assistance.py) and its    *)
(* audio peripherals (src/peripheral.py).                                  *)
(*                                                                         *)
(* Ten specifications share the definitions below:                         *)
(*   Spec         CookingAssistant.run() with its timers, ledger and FSM,  *)
(*                the clock, the speaker's worker thread step by step and  *)
(*                the microphone one phrase at a time;                     *)
(*   SpecCycle    run() after its greeting with an oracle that never       *)
(*                speaks, for longer runs;                                 *)
(*   SpecAlarm    run() kept cycling, for what eventually happens;         *)
(*   SpecListen   run() with the microphone's worker, read_text step by    *)
(*                step;                                                    *)
(*   SpecMonitor  run() from its first pass in ACTIVE_COOKING on;          *)
(*   SpecLedger   call_gpt_api / update_history / the image pruning pass,  *)
(*                applied to inputs drawn from bounded sets;               *)
(*   SpecTimers   the timer list: the arming of lines 406-411 and          *)
(*                check_timers, in any order, under a clock;               *)
(*   SpecShutdown SpecAudio with a call of Speaker.close();                *)
(*   SpecWired    Speaker() and Microphone() as CookingAssistant builds    *)
(*                them, their two worker threads step by step, and a       *)
(*                thread that speaks and listens as CookingAssistant does; *)
(*   SpecAudio    the same workers with Speaker(microphone=mic) and a      *)
(*                thread calling play_text with lists.                     *)
(***************************************************************************)
EXTENDS Naturals, Integers, Sequences, FiniteSets, TLC

VARIABLES
  \* ---- CookingAssistant (assistance.py) ----
  history,             \* self.history: the ledger, a sequence of entries
  current_state_name,  \* self.current_state_name
  stamp,               \* datetime.now() as read by call_gpt_api: strictly increasing
  nc_run,              \* history variable: the successful no-change, no-speech
                       \* turns in a row up to now
  asked,               \* history variable: the oracle calls made so far, each
                       \* with the state it was made in and its two arguments
  active_timers,       \* self.active_timers: a sequence of [name, end_time, id]
  reported,            \* history variable: the timer entries check_timers has
                       \* returned so far, in the order it returned them
  pc,                  \* where run() is
  user_voice,          \* run()'s local user_voice
  image_data,          \* run()'s local image_data: one of CaptureResults
  captured,            \* history variable: capture_image() in this cycle: "no"
                       \* (not called), "image" or "none" (what it returned)
  timer_notification,  \* run()'s local timer_notification: the expired names, <<>> for None
  response,            \* run()'s local response: the decision call_gpt_api returned
  listen_start,        \* listen()'s local start_time
  now,                 \* time.time(), in units of listen()'s timeout
  \* ---- Speaker (peripheral.py) ----
  microphone,          \* Speaker.microphone is not None
  spk_queue,           \* Speaker._queue: utterances, 0 for the None sentinel
  spk_is_playing,      \* Speaker._is_playing
  spk_pc,              \* where the _play_worker thread is
  spk_text,            \* the text the worker took off the queue (0: none)
  spoken,              \* history variable: the utterances _speak_one has
                       \* returned from, in the order it did
  \* ---- Microphone (peripheral.py) ----
  pause_event,         \* Microphone._pause_event
  mic_queue,           \* Microphone._queue: recognized fragments
  mic_pc,              \* where the _listen_worker thread is
  heard,               \* fragments recognized so far
  \* ---- the thread calling the Speaker and the Microphone ----
  cl_pending,          \* play_text(list): the items its for loop has not put yet
  uttered,             \* utterances passed to play_text so far
  messages             \* read_text()'s local messages while it drains the queue

ledgerVars == <<history, current_state_name, stamp, nc_run, asked>>
runVars == <<active_timers, reported, pc, user_voice, image_data, captured,
             timer_notification,
             response, listen_start, now>>
speakerVars == <<microphone, spoken, spk_queue, spk_is_playing, spk_pc, spk_text>>
micVars == <<pause_event, mic_queue, mic_pc, heard>>
clientVars == <<cl_pending, uttered, messages>>
audioVars == <<speakerVars, micVars, clientVars>>
vars == <<ledgerVars, runVars, audioVars>>

----------------------------------------------------------------------------
(* Bounds of the model. *)

\* Oracle calls (call_gpt_api invocations) explored by SpecLedger.
MaxCalls == 4
\* Oracle calls made by run() in Spec.
MaxTurns == 2
\* The last reading of the clock.
MaxTime == 2
\* Utterances passed to Speaker.play_text.
MaxUtter == 3
\* Fragments the microphone worker recognizes.
MaxFrags == 2
\* Decisions applied to the timer list in SpecTimers.
MaxArms == 3

----------------------------------------------------------------------------
(* The state table, assistance.py:36-80. *)

StateNames ==
  {"START", "INGREDIENT_SCAN", "RECIPE_CONFIRMATION", "INSTRUCTION_OVERVIEW",
   "ACTIVE_COOKING", "FINISHED"}

\* The table with the terminal state misspelt in ACTIVE_COOKING's list.
valid_next_states_typo(s) ==
  CASE s = "START"                -> {"INGREDIENT_SCAN"}
    [] s = "INGREDIENT_SCAN"      -> {"RECIPE_CONFIRMATION", "INGREDIENT_SCAN"}
    [] s = "RECIPE_CONFIRMATION"  -> {"RECIPE_CONFIRMATION", "INSTRUCTION_OVERVIEW"}
    [] s = "INSTRUCTION_OVERVIEW" -> {"INSTRUCTION_OVERVIEW", "ACTIVE_COOKING"}
    [] s = "ACTIVE_COOKING"       -> {"ACTIVE_COOKING", "FINISH"}
    [] s = "FINISHED"             -> {}

valid_next_states(s) ==
  CASE s = "START"                -> {"INGREDIENT_SCAN"}
    [] s = "INGREDIENT_SCAN"      -> {"RECIPE_CONFIRMATION", "INGREDIENT_SCAN"}
    [] s = "RECIPE_CONFIRMATION"  -> {"RECIPE_CONFIRMATION", "INSTRUCTION_OVERVIEW"}
    [] s = "INSTRUCTION_OVERVIEW" -> {"INSTRUCTION_OVERVIEW", "ACTIVE_COOKING"}
    [] s = "ACTIVE_COOKING"       -> {"ACTIVE_COOKING", "FINISHED"}
    [] s = "FINISHED"             -> {}

requires_image(s) ==
  s \in {"INGREDIENT_SCAN", "RECIPE_CONFIRMATION", "ACTIVE_COOKING"}

----------------------------------------------------------------------------
(* Ledger entries.                                                         *)
(*                                                                         *)
(* A user entry's content is a list of items: the text item holding the    *)
(* JSON turn context, then the image_url item when an image was passed,    *)
(* and, once pruned, the placeholder text item.  An assistant entry's      *)
(* content is the oracle's content string; of its JSON keys the ledger     *)
(* code reads status, speech_output, monitor_count and debug_note.         *)
(* monitor_count = 0 and debug_note = 0 stand for an absent key;           *)
(* debug_note = n > 0 stands for "MONITORING_NO_CHANGE * n".               *)

\* user_voice: "" (kind ""), the text listen() returned (kind "voice", the
\* fragments it joins) or the timer notification (kind "timer", the names in it).
Voice(kind, frags, names) == [kind |-> kind, frags |-> frags, timers |-> names]
NoVoice == Voice("", <<>>, <<>>)

NO_CHANGE == "MONITORING_NO_CHANGE"
PLACEHOLDER == "[System Note: Older image data stripped to save memory]"

\* What Camera.capture returns (peripheral.py:18-26) and call_gpt_api is passed
\* as image_base64: None when the file is missing, "" (the base64 of an empty
\* file), or base64 data.
NO_IMAGE == "None"
EMPTY_IMAGE == ""
JPEG == "/9j/4AAQ"
CaptureResults == {NO_IMAGE, EMPTY_IMAGE, JPEG}

\* `image_base64 is not None`, line 284
is_not_none(img) == img # NO_IMAGE

\* `if image_base64:`, line 288, and `not image_data`, line 388
truthy(img) == img \notin {NO_IMAGE, EMPTY_IMAGE}

\* {"type": "text", "text": json.dumps(turn_context)}: of the context's keys,
\* current_state, image_provided and timestamp; goal and valid_next_states
\* follow from current_state, and user_voice is never read back from the ledger.
ContextItem(state, img, ts) ==
  [type |-> "text", json |-> TRUE, text |-> "turn_context",
   current_state |-> state, image_provided |-> img, timestamp |-> ts]

\* {"type": "image_url", "image_url": {...}}
ImageItem ==
  [type |-> "image_url", json |-> FALSE, text |-> "",
   current_state |-> "", image_provided |-> FALSE, timestamp |-> 0]

\* {"type": "text", "text": "[System Note: ...]"}: text that is not JSON
PlaceholderItem ==
  [type |-> "text", json |-> FALSE, text |-> PLACEHOLDER,
   current_state |-> "", image_provided |-> FALSE, timestamp |-> 0]

\* An assistant content string.  json = FALSE: a string json.loads rejects.
Content(isJson, status, speech, count, note) ==
  [json |-> isJson, status |-> status, speech_output |-> speech,
   monitor_count |-> count, debug_note |-> note]

NoContent == Content(FALSE, "", "", 0, 0)

UserEntry(items) == [role |-> "user", content |-> items, reply |-> NoContent]
AssistantEntry(c) == [role |-> "assistant", content |-> <<>>, reply |-> c]

----------------------------------------------------------------------------
(* Sequence helpers. *)

\* del s[i] (1-based)
DelAt(s, i) == [k \in 1..(Len(s) - 1) |-> IF k < i THEN s[k] ELSE s[k + 1]]

----------------------------------------------------------------------------
(* _prune_active_cooking_images, assistance.py:116-159. *)

\* The test taking any item after the context item for the image.
has_image_any_item(msg) == Len(msg.content) > 1

\* any(item.get("type") == "image_url" for item in msg["content"])
has_image(msg) == \E k \in 1..Len(msg.content) : msg.content[k].type = "image_url"

\* The context check without its test of current_state.
is_any_context(msg) ==
  LET texts == SelectSeq(msg.content, LAMBDA it : it.type = "text") IN
    /\ texts # <<>>
    /\ Head(texts).json

\* next(item for item in msg["content"] if item.get("type") == "text"),
\* json.loads of its text, context.get("current_state") == "ACTIVE_COOKING".
\* No text item (StopIteration) or text that is not JSON (JSONDecodeError): skipped.
is_active_cooking_context(msg) ==
  LET texts == SelectSeq(msg.content, LAMBDA it : it.type = "text") IN
    /\ texts # <<>>
    /\ Head(texts).json
    /\ Head(texts).current_state = "ACTIVE_COOKING"

\* active_cooking_image_indices, ascending
active_cooking_image_indices(h) ==
  {i \in 1..Len(h) :
     /\ h[i].role = "user"
     /\ has_image(h[i])
     /\ is_active_cooking_context(h[i])}

\* The number of ACTIVE_COOKING images kept (the 3 of [:-3]).
KEEP_IMAGES == 3

\* The pass with the comparison of line 142 slipped to >= and the slice to
\* [:-4]: one image too many is kept.
indices_to_prune_keep4(h) ==
  LET idx == active_cooking_image_indices(h) IN
    IF Cardinality(idx) > KEEP_IMAGES + 1
    THEN {i \in idx : Cardinality({j \in idx : j > i}) >= KEEP_IMAGES + 1}
    ELSE {}

\* indices_to_prune = active_cooking_image_indices[:-3]
indices_to_prune(h) ==
  LET idx == active_cooking_image_indices(h) IN
    IF Cardinality(idx) > KEEP_IMAGES
    THEN {i \in idx : Cardinality({j \in idx : j > i}) >= KEEP_IMAGES}
    ELSE {}

\* new_content: the items without image_url, then the placeholder
strip_image(msg) ==
  [msg EXCEPT !.content =
     SelectSeq(msg.content, LAMBDA it : it.type # "image_url") \o <<PlaceholderItem>>]

_prune_active_cooking_images(h) ==
  LET prune == indices_to_prune(h) IN
    [i \in 1..Len(h) |-> IF i \in prune THEN strip_image(h[i]) ELSE h[i]]

----------------------------------------------------------------------------
(* update_history, assistance.py:161-200. *)

\* The merge condition on the new assistant content, line 171.
merge_candidate(h, c) ==
  c.json /\ c.status = NO_CHANGE /\ c.speech_output = "" /\ Len(h) >= 2

\* Lines 172-178: history[-2] is an assistant entry whose content decodes and
\* carries the no-change status or a "MONITORING_NO_CHANGE *" debug note.
merge_triggered(h, c) ==
  /\ merge_candidate(h, c)
  /\ LET prev == h[Len(h) - 1] IN
       /\ prev.role = "assistant"
       /\ prev.reply.json
       /\ (prev.reply.status = NO_CHANGE \/ prev.reply.debug_note # 0)

\* Lines 179-183: prev_json.get("monitor_count", 1) + 1, written into the content.
merged_content(h, c) ==
  LET prev  == h[Len(h) - 1].reply
      count == (IF prev.monitor_count = 0 THEN 1 ELSE prev.monitor_count) + 1
  IN  [c EXCEPT !.monitor_count = count, !.debug_note = count]

\* The two deletions made one entry too far from the end.
merge_delete_shifted(h) ==
  IF Len(h) >= 4 THEN DelAt(DelAt(h, Len(h) - 2), Len(h) - 3) ELSE h

\* The merge with its first deletion only: del history[-3]
merge_delete_one(h) ==
  IF Len(h) >= 3 THEN DelAt(h, Len(h) - 2) ELSE h

\* Lines 186-188: del history[-3]; del history[-2]
merge_delete(h) ==
  IF Len(h) >= 3 THEN DelAt(DelAt(h, Len(h) - 2), Len(h) - 2) ELSE h

\* update_history("assistant", content)
update_history_assistant(h, c) ==
  IF merge_triggered(h, c)
  THEN Append(merge_delete(h), AssistantEntry(merged_content(h, c)))
  ELSE Append(h, AssistantEntry(c))

\* update_history("user", user_message): append, then the pruning pass
update_history_user(h, items) ==
  _prune_active_cooking_images(Append(h, UserEntry(items)))

----------------------------------------------------------------------------
(* call_gpt_api, assistance.py:202-319. *)

\* The keys of a decision run() reads that the ledger code does not.  next_state
\* "None" is a missing key; timer_name "" and timer_duration 0 are null.
Decision(next, tname, tdur) ==
  [next_state |-> next, timer_name |-> tname, timer_duration |-> tdur]

NoDecision == Decision("None", "", 0)

\* What the oracle call can come to.  "network": requests.post or response.json()
\* raises; "error_field": "error" in data; "content": a content string came back,
\* c the keys of it the ledger reads, d the others.
Outcome(kind, c, d) == [kind |-> kind, content |-> c, decision |-> d]

\* What call_gpt_api returns: None (ok = FALSE) or the decoded content.
Response(ok, c, d) ==
  [ok |-> ok, status |-> c.status, speech_output |-> c.speech_output,
   next_state |-> d.next_state, timer_name |-> d.timer_name,
   timer_duration |-> d.timer_duration]

NoResponse == Response(FALSE, NoContent, NoDecision)

\* The run of successful no-change, no-speech turns after a call that returned r.
run_after(n, r) ==
  IF r.ok /\ r.status = NO_CHANGE /\ r.speech_output = "" THEN n + 1 ELSE 0

\* A call of call_gpt_api(user_voice, image_base64), the state it is made in
\* and the time it is made at.
Asked(state, voice, img, t) ==
  [state |-> state, user_voice |-> voice, image |-> img, at |-> t]

\* turn_context and user_message, lines 278-292: image_provided is
\* `image_base64 is not None`, the image_url item is appended `if image_base64`.
user_message(state, img, ts) ==
  <<ContextItem(state, is_not_none(img), ts)>>
    \o (IF truthy(img) THEN <<ImageItem>> ELSE <<>>)

\* call_gpt_api up to its request, lines 278-294: the ledger with the user
\* entry of the call.
call_gpt_api_request(h, state, img, ts) ==
  update_history_user(h, user_message(state, img, ts))

\* call_gpt_api from its request on, lines 308-319: the ledger h1 after the
\* request has come to outcome, and what the call returns (ok = FALSE: None).
call_gpt_api_answer(h1, outcome) ==
  IF outcome.kind # "content"
  THEN [history |-> h1, response |-> NoResponse]
  ELSE [history  |-> update_history_assistant(h1, outcome.content),
        response |-> IF outcome.content.json
                     THEN Response(TRUE, outcome.content, outcome.decision)
                     ELSE NoResponse]

\* The ledger after the call and what the call returns.
call_gpt_api(h, state, img, ts, outcome) ==
  call_gpt_api_answer(call_gpt_api_request(h, state, img, ts), outcome)

\* CookingAssistant.__init__, assistance.py:24-82, and run() about to start
InitAssistant ==
  /\ history = <<>>
  /\ current_state_name = "START"
  /\ stamp = 0
  /\ nc_run = 0
  /\ asked = <<>>
  /\ active_timers = <<>>
  /\ reported = <<>>
  /\ pc = "start"
  /\ user_voice = NoVoice
  /\ image_data = NO_IMAGE
  /\ captured = "no"
  /\ timer_notification = <<>>
  /\ response = NoResponse
  /\ listen_start = 0
  /\ now = 0

----------------------------------------------------------------------------
(* Speaker, peripheral.py:28-168. *)

\* Speaker.__init__; mic: a Microphone was passed as microphone=
InitSpeaker(mic) ==
  /\ microphone = mic
  /\ spk_queue = <<>>
  /\ spk_is_playing = FALSE
  /\ spk_pc = "get"
  /\ spk_text = 0
  /\ spoken = <<>>

\* Speaker.is_playing, lines 66-69 (under the lock)
is_playing == spk_is_playing \/ spk_queue # <<>>

\* _play_worker, lines 143-146: text = self._queue.get(); the None sentinel
\* ends the worker.
WorkerGet ==
  /\ spk_pc = "get"
  /\ spk_queue # <<>>
  /\ spk_queue' = Tail(spk_queue)
  /\ IF Head(spk_queue) = 0
     THEN spk_pc' = "stopped" /\ spk_text' = 0
     ELSE spk_pc' = "pause" /\ spk_text' = Head(spk_queue)
  /\ UNCHANGED <<microphone, spoken, spk_is_playing, micVars, clientVars, ledgerVars, runVars>>

\* _speak_one, lines 88-89: if self.microphone: self.microphone.pause()
WorkerPauseMic ==
  /\ spk_pc = "pause"
  /\ spk_pc' = "set_playing"
  /\ pause_event' = IF microphone THEN TRUE ELSE pause_event
  /\ UNCHANGED <<microphone, spoken, spk_queue, spk_is_playing, spk_text,
                 mic_queue, mic_pc, heard, clientVars, ledgerVars, runVars>>

\* _speak_one, line 91: self._set_playing(True)
WorkerSetPlaying ==
  /\ spk_pc = "set_playing"
  /\ spk_pc' = "piper"
  /\ spk_is_playing' = TRUE
  /\ UNCHANGED <<microphone, spoken, spk_queue, spk_text, micVars, clientVars, ledgerVars, runVars>>

\* _speak_one, lines 105-118: Piper wrote the WAV (ok), or failed, wrote an
\* empty file or raised, and the utterance goes to the finally block unplayed.
WorkerPiper ==
  /\ spk_pc = "piper"
  /\ \E ok \in BOOLEAN : spk_pc' = IF ok THEN "aplay" ELSE "set_idle"
  /\ UNCHANGED <<microphone, spoken, spk_queue, spk_is_playing, spk_text,
                 micVars, clientVars, ledgerVars, runVars>>

\* _speak_one, lines 121-127: aplay has played the WAV to its end
WorkerAplayDone ==
  /\ spk_pc = "aplay"
  /\ spk_pc' = "set_idle"
  /\ UNCHANGED <<microphone, spoken, spk_queue, spk_is_playing, spk_text,
                 micVars, clientVars, ledgerVars, runVars>>

\* _speak_one, line 132: self._set_playing(False)
WorkerSetIdle ==
  /\ spk_pc = "set_idle"
  /\ spk_pc' = "resume"
  /\ spk_is_playing' = FALSE
  /\ UNCHANGED <<microphone, spoken, spk_queue, spk_text, micVars, clientVars, ledgerVars, runVars>>

\* _speak_one, lines 133-134: if self.microphone: self.microphone.resume();
\* then _play_worker's task_done and the next get
WorkerResumeMic ==
  /\ spk_pc = "resume"
  /\ spk_pc' = "get"
  /\ spk_text' = 0
  /\ spoken' = Append(spoken, spk_text)
  /\ pause_event' = IF microphone THEN FALSE ELSE pause_event
  /\ UNCHANGED <<microphone, spk_queue, spk_is_playing,
                 mic_queue, mic_pc, heard, clientVars, ledgerVars, runVars>>

SpeakerWorker ==
  \/ WorkerGet
  \/ WorkerPauseMic
  \/ WorkerSetPlaying
  \/ WorkerPiper
  \/ WorkerAplayDone
  \/ WorkerSetIdle
  \/ WorkerResumeMic

----------------------------------------------------------------------------
(* Microphone, peripheral.py:190-276.  _stop_event is never set by the     *)
(* program, so the worker's loop never ends.                               *)

\* Microphone.__init__, the worker past its ambient-noise adjustment
InitMicrophone ==
  /\ pause_event = FALSE
  /\ mic_queue = <<>>
  /\ mic_pc = "loop"
  /\ heard = 0

\* _listen_worker, lines 231-243: paused: sleep and test again; otherwise
\* enter recognizer.listen
MicLoop ==
  /\ mic_pc = "loop"
  /\ mic_pc' = IF pause_event THEN "loop" ELSE "listen"
  /\ UNCHANGED <<pause_event, mic_queue, heard, speakerVars, clientVars, ledgerVars, runVars>>

\* _listen_worker, line 243: recognizer.listen returned a phrase (got), or
\* raised and the loop continues
MicListenReturns ==
  /\ mic_pc = "listen"
  /\ \E got \in BOOLEAN : mic_pc' = IF got THEN "recognize" ELSE "loop"
  /\ UNCHANGED <<pause_event, mic_queue, heard, speakerVars, clientVars, ledgerVars, runVars>>

\* _listen_worker, lines 246-255: recognize_google gave non-blank text, which is
\* put on the queue, or gave nothing (UnknownValueError, RequestError, blank)
MicRecognize ==
  /\ mic_pc = "recognize"
  /\ mic_pc' = "loop"
  /\ \E text \in BOOLEAN :
       IF text /\ heard < MaxFrags
       THEN heard' = heard + 1 /\ mic_queue' = Append(mic_queue, heard + 1)
       ELSE UNCHANGED <<heard, mic_queue>>
  /\ UNCHANGED <<pause_event, speakerVars, clientVars, ledgerVars, runVars>>

MicWorker == MicLoop \/ MicListenReturns \/ MicRecognize

\* Microphone.has_text, lines 260-261
has_text == mic_queue # <<>>

\* The separator " " of line 276, as it stands in a text between two fragments.
SPACE == 0

\* " ".join(messages), line 276: the fragments in the order of the list with
\* the separator between each two of them; "" (<<>>) for the empty list.
space_join(msgs) ==
  [k \in 1..(2 * Len(msgs) - 1) |-> IF k % 2 = 1 THEN msgs[(k + 1) \div 2] ELSE SPACE]

\* Microphone.read_text, lines 263-276, when nothing is put while it drains:
\* the queue's fragments, joined.
read_text == space_join(mic_queue)

----------------------------------------------------------------------------
(* The thread that calls the Speaker and the Microphone. *)

InitClient ==
  /\ cl_pending = <<>>
  /\ uttered = 0
  /\ messages = <<>>

\* Speaker.play_text(list), lines 154-157: the call begins with n new utterances
ClientPlayList ==
  /\ cl_pending = <<>>
  /\ \E n \in 1..(MaxUtter - uttered) :
       /\ cl_pending' = [k \in 1..n |-> uttered + k]
       /\ uttered' = uttered + n
  /\ UNCHANGED <<messages, speakerVars, micVars, ledgerVars, runVars>>

\* play_text putting its item at the head of the queue instead of the tail.
ClientPut_front ==
  /\ cl_pending # <<>>
  /\ spk_queue' = <<Head(cl_pending)>> \o spk_queue
  /\ cl_pending' = Tail(cl_pending)
  /\ UNCHANGED <<uttered, messages, microphone, spoken, spk_is_playing, spk_pc, spk_text,
                 micVars, ledgerVars, runVars>>

\* Speaker.play_text, lines 157 and 162: self._queue.put(t)
ClientPut ==
  /\ cl_pending # <<>>
  /\ spk_queue' = Append(spk_queue, Head(cl_pending))
  /\ cl_pending' = Tail(cl_pending)
  /\ UNCHANGED <<uttered, messages, microphone, spoken, spk_is_playing, spk_pc, spk_text,
                 micVars, ledgerVars, runVars>>

\* Microphone.read_text called by the thread: the queue is drained
ClientReadText ==
  /\ has_text
  /\ mic_queue' = <<>>
  /\ UNCHANGED <<pause_event, mic_pc, heard, speakerVars, clientVars, ledgerVars, runVars>>

\* CookingAssistant.speak, assistance.py:84-88: wait until the speaker is not
\* playing, then play_text(text) with a string
ClientSpeak ==
  /\ uttered < MaxUtter
  /\ ~is_playing
  /\ spk_queue' = Append(spk_queue, uttered + 1)
  /\ uttered' = uttered + 1
  /\ UNCHANGED <<cl_pending, messages, microphone, spoken, spk_is_playing, spk_pc, spk_text,
                 micVars, ledgerVars, runVars>>

Client == ClientPlayList \/ ClientPut \/ ClientReadText

\* Speaker(microphone=mic) and Microphone() with their worker threads
InitAudio ==
  /\ InitAssistant
  /\ InitSpeaker(TRUE)
  /\ InitMicrophone
  /\ InitClient

NextAudio == SpeakerWorker \/ MicWorker \/ Client

SpecAudio == InitAudio /\ [][NextAudio]_vars

\* Speaker.close, lines 166-168: the None sentinel is put on the queue.  The
\* thread closes the speaker once, between two play_text calls.
ClientClose ==
  /\ cl_pending = <<>>
  /\ spk_pc # "stopped"
  /\ \A k \in 1..Len(spk_queue) : spk_queue[k] # 0
  /\ spk_queue' = Append(spk_queue, 0)
  /\ UNCHANGED <<microphone, spoken, spk_is_playing, spk_pc, spk_text,
                 micVars, clientVars, ledgerVars, runVars>>

\* The speaker and the microphone with a thread that also closes the speaker
NextShutdown == NextAudio \/ ClientClose

SpecShutdown == InitAudio /\ [][NextShutdown]_vars

\* Speaker() and Microphone() as CookingAssistant.__init__ builds them
\* (assistance.py:31-33): the speaker is given no microphone.  The calling
\* thread speaks and listens as CookingAssistant does.
InitWired ==
  /\ InitAssistant
  /\ InitSpeaker(FALSE)
  /\ InitMicrophone
  /\ InitClient

NextWired == SpeakerWorker \/ MicWorker \/ ClientSpeak \/ ClientReadText

SpecWired == InitWired /\ [][NextWired]_vars

----------------------------------------------------------------------------
(* check_timers, assistance.py:321-333. *)

\* for i in range(len - 1, -1, -1): the entries with now >= end_time, in the
\* order the loop visits them (last entry first)
RECURSIVE expired_timers(_, _)
expired_timers(timers, t) ==
  IF timers = <<>> THEN <<>>
  ELSE LET last == timers[Len(timers)]
           rest == expired_timers(SubSeq(timers, 1, Len(timers) - 1), t)
       IN  IF t >= last.end_time THEN <<last>> \o rest ELSE rest

\* expired: timer['name'] of each of them; <<>> stands for the None returned
\* when the list is empty
expired_names(timers, t) ==
  LET e == expired_timers(timers, t) IN [k \in 1..Len(e) |-> e[k].name]

\* The deletions with the comparison slipped to >: an entry whose deadline is
\* the time of the poll is returned and stays in the list.
remaining_timers_late(timers, t) == SelectSeq(timers, LAMBDA tm : ~(t > tm.end_time))

\* active_timers after the deletions
remaining_timers(timers, t) == SelectSeq(timers, LAMBDA tm : ~(t >= tm.end_time))

----------------------------------------------------------------------------
(* CookingAssistant.run, assistance.py:335-424. *)

\* The decisions the oracle may return to run().
OracleReplies ==
  {<<NO_CHANGE, "">>, <<"INSTRUCTION_UPDATE", "">>, <<"INSTRUCTION_UPDATE", "speech">>}
OracleNextStates == {"INGREDIENT_SCAN", "ACTIVE_COOKING", "FINISHED", "BOGUS", "None"}
OracleTimers == {<<"", 0>>, <<"Pasta", 0>>, <<"Pasta", -1>>, <<"Pasta", 1>>}

OracleOutcomes ==
  {Outcome("network", NoContent, NoDecision),
   Outcome("error_field", NoContent, NoDecision),
   Outcome("content", NoContent, NoDecision)}
  \cup {Outcome("content", Content(TRUE, rp[1], rp[2], 0, 0), Decision(nx, tm[1], tm[2])) :
          rp \in OracleReplies, nx \in OracleNextStates, tm \in OracleTimers}

\* The top of the while loop, lines 339-348: the locals are reset and the mode
\* is chosen by the current state.
LoopTop(state) ==
  /\ pc' = IF state = "ACTIVE_COOKING" THEN "ac_timers" ELSE "re_timers"
  /\ user_voice' = NoVoice
  /\ image_data' = NO_IMAGE
  /\ captured' = "no"
  /\ timer_notification' = <<>>
  /\ response' = NoResponse

\* speak(), lines 84-88, as called on line 336: wait until the speaker is not
\* playing, then play_text("System starting")
RunStart ==
  /\ pc = "start"
  /\ ~is_playing
  /\ spk_queue' = Append(spk_queue, uttered + 1)
  /\ uttered' = uttered + 1
  /\ LoopTop(current_state_name)
  /\ UNCHANGED <<ledgerVars, active_timers, reported, listen_start, now, microphone,
                 spoken, spk_is_playing, spk_pc, spk_text, micVars, cl_pending,
                 messages>>

\* The poll of a cycle that listened first and lets the notification replace
\* what it read.
RunCheckTimers_flush ==
  /\ pc \in {"ac_timers", "re_timers"}
  /\ LET names == expired_names(active_timers, now) IN
       /\ active_timers' = remaining_timers(active_timers, now)
       /\ reported' = reported \o expired_timers(active_timers, now)
       /\ timer_notification' = names
       /\ IF names # <<>>
          THEN /\ user_voice' = Voice("timer", <<>>, names)
               /\ pc' = "capture"
               /\ mic_queue' = <<>>
               /\ UNCHANGED listen_start
          ELSE /\ pc' = IF pc = "ac_timers" THEN "ac_listen" ELSE "re_listen"
               /\ listen_start' = now
               /\ UNCHANGED <<user_voice, mic_queue>>
  /\ UNCHANGED <<ledgerVars, image_data, captured, response, now, speakerVars,
                 pause_event, mic_pc, heard, clientVars>>

\* Lines 351-354 and 371-375: check_timers(); a notification becomes user_voice
\* and listening is skipped, otherwise listen() starts.
RunCheckTimers ==
  /\ pc \in {"ac_timers", "re_timers"}
  /\ LET names == expired_names(active_timers, now) IN
       /\ active_timers' = remaining_timers(active_timers, now)
       /\ reported' = reported \o expired_timers(active_timers, now)
       /\ timer_notification' = names
       /\ IF names # <<>>
          THEN /\ user_voice' = Voice("timer", <<>>, names)
               /\ pc' = "capture"
               /\ UNCHANGED listen_start
          ELSE /\ pc' = IF pc = "ac_timers" THEN "ac_listen" ELSE "re_listen"
               /\ listen_start' = now
               /\ UNCHANGED user_voice
  /\ UNCHANGED <<ledgerVars, image_data, captured, response, now, audioVars>>

\* listen(), lines 96-101: has_text() was true at a poll and read_text() gave
\* the text, which is returned (lines 358, 378-381).
RunListenText ==
  /\ pc \in {"ac_listen", "re_listen"}
  /\ has_text
  /\ user_voice' = Voice("voice", read_text, <<>>)
  /\ mic_queue' = <<>>
  /\ pc' = "capture"
  /\ UNCHANGED <<ledgerVars, active_timers, reported, image_data, captured, timer_notification,
                 response, listen_start, now, speakerVars, pause_event, mic_pc,
                 heard, clientVars>>

\* listen(), lines 96-98, step by step: has_text() was true at a poll and
\* read_text() is entered with messages = [].
RunHasText ==
  /\ pc \in {"ac_listen", "re_listen"}
  /\ has_text
  /\ pc' = IF pc = "ac_listen" THEN "ac_read" ELSE "re_read"
  /\ messages' = <<>>
  /\ UNCHANGED <<ledgerVars, active_timers, reported, user_voice, image_data, captured,
                 timer_notification, response, listen_start, now, speakerVars,
                 micVars, cl_pending, uttered>>

\* read_text, peripheral.py:267-271: get_nowait() takes the oldest fragment,
\* which is appended to messages.
RunGetNowait ==
  /\ pc \in {"ac_read", "re_read"}
  /\ mic_queue # <<>>
  /\ messages' = Append(messages, Head(mic_queue))
  /\ mic_queue' = Tail(mic_queue)
  /\ UNCHANGED <<ledgerVars, runVars, speakerVars, pause_event, mic_pc, heard,
                 cl_pending, uttered>>

\* read_text, peripheral.py:272-276: get_nowait() raises queue.Empty and the
\* joined messages are returned; listen(), lines 99-102: a non-empty text is
\* returned and becomes user_voice (lines 358, 378-381), on an empty one the
\* polling goes on.
RunReadTextReturns ==
  /\ pc \in {"ac_read", "re_read"}
  /\ mic_queue = <<>>
  /\ LET text == space_join(messages) IN
       IF text # <<>>
       THEN /\ user_voice' = Voice("voice", text, <<>>)
            /\ pc' = "capture"
       ELSE /\ pc' = IF pc = "ac_read" THEN "ac_listen" ELSE "re_listen"
            /\ UNCHANGED user_voice
  /\ messages' = <<>>
  /\ UNCHANGED <<ledgerVars, active_timers, reported, image_data, captured,
                 timer_notification, response, listen_start, now, speakerVars,
                 micVars, cl_pending, uttered>>

\* The reactive wait without its inner loop: a listen that times out lets the
\* cycle go on.
RunListenTimeout_once ==
  /\ pc \in {"ac_listen", "re_listen"}
  /\ now > listen_start
  /\ pc' = "capture"
  /\ UNCHANGED <<ledgerVars, active_timers, reported, user_voice, image_data, captured,
                 timer_notification, response, listen_start, now, audioVars>>

\* The reactive wait with its timers polled once, before the inner loop.
RunListenTimeout_unpolled ==
  /\ pc \in {"ac_listen", "re_listen"}
  /\ now > listen_start
  /\ pc' = IF pc = "ac_listen" THEN "capture" ELSE "re_listen"
  /\ UNCHANGED <<ledgerVars, active_timers, reported, user_voice, image_data, captured,
                 timer_notification, response, listen_start, now, audioVars>>

\* listen(), lines 96 and 103: the timeout has elapsed and "" is returned.  In
\* ACTIVE_COOKING the cycle goes on without voice; elsewhere the inner loop
\* goes back to check_timers.
RunListenTimeout ==
  /\ pc \in {"ac_listen", "re_listen"}
  /\ now > listen_start
  /\ pc' = IF pc = "ac_listen" THEN "capture" ELSE "re_timers"
  /\ UNCHANGED <<ledgerVars, active_timers, reported, user_voice, image_data, captured,
                 timer_notification, response, listen_start, now, audioVars>>

\* The capture made whether or not a timer fired.
RunCapture_always ==
  /\ pc = "capture"
  /\ \E got \in CaptureResults :
       LET call == requires_image(current_state_name)
           img == IF call THEN got ELSE NO_IMAGE
       IN  /\ captured' = IF ~call THEN "no"
                          ELSE IF got = NO_IMAGE THEN "none"
                          ELSE IF got = EMPTY_IMAGE THEN "empty" ELSE "image"
           /\ image_data' = img
           /\ IF user_voice = NoVoice /\ ~truthy(img) /\ current_state_name = "START"
              THEN /\ pc' = "re_timers"
                   /\ user_voice' = NoVoice
                   /\ timer_notification' = <<>>
              ELSE /\ pc' = "call"
                   /\ UNCHANGED <<user_voice, timer_notification>>
  /\ UNCHANGED <<ledgerVars, active_timers, reported, response, listen_start, now,
                 audioVars>>

\* Lines 361-363 and 383-385: capture_image() is called when the state requires
\* an image and no timer fired; Camera.capture returns one of CaptureResults.
\* Then the gate of lines 388-389.
RunCapture ==
  /\ pc = "capture"
  /\ \E got \in CaptureResults :
       LET call == requires_image(current_state_name) /\ timer_notification = <<>>
           img == IF call THEN got ELSE NO_IMAGE
       IN  /\ captured' = IF ~call THEN "no"
                          ELSE IF got = NO_IMAGE THEN "none"
                          ELSE IF got = EMPTY_IMAGE THEN "empty" ELSE "image"
           /\ image_data' = img
           /\ IF user_voice = NoVoice /\ ~truthy(img) /\ current_state_name = "START"
              THEN /\ pc' = "re_timers"
                   /\ user_voice' = NoVoice
                   /\ timer_notification' = <<>>
              ELSE /\ pc' = "call"
                   /\ UNCHANGED <<user_voice, timer_notification>>
  /\ UNCHANGED <<ledgerVars, active_timers, reported, response, listen_start, now,
                 audioVars>>

\* Lines 406-411: the timer of the decision, armed when timer_name and
\* timer_duration are both truthy; end_time = time.time() + int(timer_duration).
\* id tells the dict objects apart: the number of the oracle call that armed it.
armed_timers(timers, r, t, id) ==
  IF r.timer_name # "" /\ r.timer_duration # 0
  THEN Append(timers, [name |-> r.timer_name, end_time |-> t + r.timer_duration,
                       id |-> id])
  ELSE timers

\* Line 391 into call_gpt_api, lines 278-306: the turn context is stamped, the
\* user entry is appended and the request is posted; run() waits for the
\* answer.  At most limit calls are explored.
RunCallApiSend(limit) ==
  /\ pc = "call"
  /\ stamp < limit
  /\ history' = call_gpt_api_request(history, current_state_name, image_data, stamp + 1)
  /\ stamp' = stamp + 1
  /\ asked' = Append(asked, Asked(current_state_name, user_voice, image_data, now))
  /\ pc' = "await"
  /\ UNCHANGED <<current_state_name, nc_run, active_timers, reported, user_voice, image_data,
                 captured, timer_notification, response, listen_start, now, audioVars>>

\* Lines 308-319 and 392-411: requests.post has returned or raised, and the
\* oracle's answer is one of outcomes; on None the cycle is abandoned,
\* otherwise the decision's timer is armed, with time.time() as it is now.
RunCallApiReturnWith(outcomes) ==
  /\ pc = "await"
  /\ \E o \in outcomes :
       LET r == call_gpt_api_answer(history, o)
       IN  /\ history' = r.history
           /\ nc_run' = run_after(nc_run, r.response)
           /\ IF r.response.ok
              THEN /\ response' = r.response
                   /\ active_timers' = armed_timers(active_timers, r.response, now, stamp)
                   /\ pc' = "speak"
                   /\ UNCHANGED <<user_voice, image_data, captured, timer_notification>>
              ELSE /\ LoopTop(current_state_name)
                   /\ UNCHANGED active_timers
  /\ UNCHANGED <<current_state_name, stamp, asked, reported, listen_start, now, audioVars>>

RunCallApi == RunCallApiSend(MaxTurns)

RunCallApiReturn == RunCallApiReturnWith(OracleOutcomes)

\* The transition without the membership test of line 418: next_state is
\* taken whenever the decision has one.
next_state_name_untested(state, r) ==
  IF r.next_state # "None" THEN r.next_state ELSE state

\* Lines 418-422: the state the decision leads to.
next_state_name(state, r) ==
  IF r.next_state \in StateNames THEN r.next_state ELSE state

\* Line 420-422: the break out of the loop.
loop_breaks(r) == r.next_state \notin StateNames /\ r.next_state = "FINISHED"

\* Lines 413-424: speak(speech) waits until the speaker is not playing and
\* queues the speech (empty speech is not spoken); then the transition, or the
\* break and camera.release().
RunSpeakAndTransition ==
  /\ pc = "speak"
  /\ IF response.speech_output # ""
     THEN /\ ~is_playing
          /\ spk_queue' = Append(spk_queue, uttered + 1)
          /\ uttered' = uttered + 1
     ELSE UNCHANGED <<spk_queue, uttered>>
  /\ current_state_name' = next_state_name(current_state_name, response)
  /\ IF loop_breaks(response)
     THEN /\ pc' = "released"
          /\ UNCHANGED <<user_voice, image_data, captured, timer_notification, response>>
     ELSE LoopTop(next_state_name(current_state_name, response))
  /\ UNCHANGED <<history, stamp, nc_run, asked, active_timers, reported, listen_start, now,
                 microphone, spoken, spk_is_playing, spk_pc, spk_text, micVars, cl_pending,
                 messages>>

\* time.time() advances.
Tick ==
  /\ now < MaxTime
  /\ now' = now + 1
  /\ UNCHANGED <<ledgerVars, active_timers, reported, pc, user_voice, image_data, captured,
                 timer_notification, response, listen_start, audioVars>>

\* _listen_worker, peripheral.py:231-258, one phrase at a time: a phrase is
\* heard, recognized and put on the queue.
MicHears ==
  /\ heard < MaxFrags
  /\ heard' = heard + 1
  /\ mic_queue' = Append(mic_queue, heard + 1)
  /\ UNCHANGED <<ledgerVars, runVars, speakerVars, pause_event, mic_pc, clientVars>>

RunLoop ==
  \/ RunStart
  \/ RunCheckTimers
  \/ RunListenText
  \/ RunListenTimeout
  \/ RunCapture
  \/ RunCallApi
  \/ RunCallApiReturn
  \/ RunSpeakAndTransition

\* CookingAssistant(): Speaker() without a microphone, Microphone(), and run()
Init ==
  /\ InitAssistant
  /\ InitSpeaker(FALSE)
  /\ InitMicrophone
  /\ InitClient

Next == RunLoop \/ SpeakerWorker \/ MicHears \/ Tick

Spec == Init /\ [][Next]_vars

----------------------------------------------------------------------------
(* SpecCycle: run() with an oracle that never speaks.  What a cycle listens *)
(* for, captures and passes to the oracle depends on the decisions only     *)
(* through the state they lead to and the timers they arm; the oracle here  *)
(* answers with those keys alone, or fails, which leaves room for longer    *)
(* runs and a longer clock than Spec's.  With such an oracle speak() is     *)
(* called once, at line 337, and the speaker's worker has that one          *)
(* utterance to play; the runs start where it has played it and run() is at *)
(* the top of its first pass.                                               *)

\* run() at line 339 for the first time, "System starting" played
InitStarted ==
  /\ history = <<>>
  /\ current_state_name = "START"
  /\ stamp = 0
  /\ nc_run = 0
  /\ asked = <<>>
  /\ active_timers = <<>>
  /\ reported = <<>>
  /\ pc = "re_timers"
  /\ user_voice = NoVoice
  /\ image_data = NO_IMAGE
  /\ captured = "no"
  /\ timer_notification = <<>>
  /\ response = NoResponse
  /\ listen_start = 0
  /\ now = 0
  /\ microphone = FALSE
  /\ spk_queue = <<>>
  /\ spk_is_playing = FALSE
  /\ spk_pc = "get"
  /\ spk_text = 0
  /\ spoken = <<1>>
  /\ InitMicrophone
  /\ cl_pending = <<>>
  /\ uttered = 1
  /\ messages = <<>>

CycleOutcomes ==
  {Outcome("network", NoContent, NoDecision)}
    \cup {Outcome("content", Content(TRUE, "INSTRUCTION_UPDATE", "", 0, 0),
                  Decision(nx, tm[1], tm[2])) :
            nx \in {"None", "BOGUS", "INGREDIENT_SCAN", "INSTRUCTION_OVERVIEW",
                    "ACTIVE_COOKING"},
            tm \in {<<"", 0>>, <<"Pasta", 1>>}}

RunLoopCycle ==
  \/ RunCheckTimers
  \/ RunListenText
  \/ RunListenTimeout
  \/ RunCapture
  \/ RunCallApiSend(MaxTurns)
  \/ RunCallApiReturnWith(CycleOutcomes)
  \/ RunSpeakAndTransition

NextCycle == RunLoopCycle \/ MicHears \/ Tick

SpecCycle == InitStarted /\ [][NextCycle]_vars

----------------------------------------------------------------------------
(* SpecAlarm: run() kept cycling after its greeting.  The main thread takes *)
(* its next step whenever it has one (a listen returns when its timeout has *)
(* elapsed, the oracle's call returns); nothing is assumed of the user or   *)
(* of the clock.  The oracle never speaks: it fails, or arms a timer or     *)
(* none and leads to a reactive state or to the monitoring state.           *)

AlarmOutcomes ==
  {Outcome("network", NoContent, NoDecision)}
    \cup {Outcome("content", Content(TRUE, "INSTRUCTION_UPDATE", "", 0, 0),
                  Decision(nx, tm[1], tm[2])) :
            nx \in {"INGREDIENT_SCAN", "ACTIVE_COOKING"},
            tm \in {<<"", 0>>, <<"Pasta", 1>>}}

RunLoopAlarm ==
  \/ RunCheckTimers
  \/ RunListenText
  \/ RunListenTimeout
  \/ RunCapture
  \/ RunCallApiSend(MaxTurns)
  \/ RunCallApiReturnWith(AlarmOutcomes)
  \/ RunSpeakAndTransition

NextAlarm == RunLoopAlarm \/ MicHears \/ Tick

SpecAlarm ==
  /\ InitStarted
  /\ [][NextAlarm]_vars
  /\ WF_vars(RunLoopAlarm)

----------------------------------------------------------------------------
(* SpecListen: run() after its greeting with the microphone's worker thread *)
(* and read_text step by step: the worker puts fragments while read_text    *)
(* drains the queue one get_nowait() at a time.  The oracle never speaks:   *)
(* it fails, or arms a timer or none and stays or leads to the monitoring   *)
(* state.                                                                   *)

ListenOutcomes ==
  {Outcome("network", NoContent, NoDecision)}
    \cup {Outcome("content", Content(TRUE, "INSTRUCTION_UPDATE", "", 0, 0),
                  Decision(nx, tm[1], tm[2])) :
            nx \in {"None", "ACTIVE_COOKING"},
            tm \in {<<"", 0>>, <<"Pasta", 1>>}}

RunLoopListen ==
  \/ RunCheckTimers
  \/ RunHasText
  \/ RunGetNowait
  \/ RunReadTextReturns
  \/ RunListenTimeout
  \/ RunCapture
  \/ RunCallApiSend(MaxTurns)
  \/ RunCallApiReturnWith(ListenOutcomes)
  \/ RunSpeakAndTransition

NextListen == RunLoopListen \/ MicWorker \/ Tick

SpecListen == InitStarted /\ [][NextListen]_vars

----------------------------------------------------------------------------
(* SpecMonitor: run() from its first pass in ACTIVE_COOKING on.  It starts   *)
(* in a state Spec reaches: "System starting" has been played, the user has *)
(* spoken once, the first oracle call has answered that with speech and     *)
(* next_state ACTIVE_COOKING, which line 418 accepts, and the loop is at    *)
(* its top with that speech on the speaker's queue.                         *)

\* The first turn: the oracle's answer, and what call_gpt_api makes of it.
FirstOutcome ==
  Outcome("content", Content(TRUE, "INSTRUCTION_UPDATE", "speech", 0, 0),
          Decision("ACTIVE_COOKING", "", 0))

FirstCall == call_gpt_api(<<>>, "START", NO_IMAGE, 1, FirstOutcome)

InitMonitor ==
  /\ history = FirstCall.history
  /\ current_state_name = "ACTIVE_COOKING"
  /\ stamp = 1
  /\ nc_run = 0
  /\ asked = <<Asked("START", Voice("voice", <<1>>, <<>>), NO_IMAGE, 0)>>
  /\ active_timers = <<>>
  /\ reported = <<>>
  /\ pc = "ac_timers"
  /\ user_voice = NoVoice
  /\ image_data = NO_IMAGE
  /\ captured = "no"
  /\ timer_notification = <<>>
  /\ response = NoResponse
  /\ listen_start = 0
  /\ now = 0
  /\ microphone = FALSE
  /\ spk_queue = <<2>>
  /\ spk_is_playing = FALSE
  /\ spk_pc = "get"
  /\ spk_text = 0
  /\ spoken = <<1>>
  /\ pause_event = FALSE
  /\ mic_queue = <<>>
  /\ mic_pc = "loop"
  /\ heard = 1
  /\ cl_pending = <<>>
  /\ uttered = 2
  /\ messages = <<>>

\* The passes of the loop, with two further oracle calls
RunLoopMonitor ==
  \/ RunCheckTimers
  \/ RunListenText
  \/ RunListenTimeout
  \/ RunCapture
  \/ RunCallApiSend(MaxTurns + 1)
  \/ RunCallApiReturn
  \/ RunSpeakAndTransition

NextMonitor == RunLoopMonitor \/ SpeakerWorker \/ MicHears \/ Tick

SpecMonitor == InitMonitor /\ [][NextMonitor]_vars

----------------------------------------------------------------------------
(* SpecLedger: call_gpt_api applied to drawn inputs. *)

\* The state a call is made in and the image it is passed: the monitoring
\* state with each of the captures Camera.capture can return
\* (peripheral.py:18-26), and another state that requires an image.
LedgerInputs ==
  {<<"ACTIVE_COOKING", JPEG>>, <<"ACTIVE_COOKING", EMPTY_IMAGE>>,
   <<"ACTIVE_COOKING", NO_IMAGE>>, <<"RECIPE_CONFIRMATION", JPEG>>}

\* Oracle answers: every status with and without speech, and a content string
\* that does not decode.
LedgerContents ==
  {Content(TRUE, NO_CHANGE, "", 0, 0),
   Content(TRUE, NO_CHANGE, "speech", 0, 0),
   Content(TRUE, "INSTRUCTION_UPDATE", "speech", 0, 0),
   NoContent}

LedgerOutcomes ==
  {Outcome("network", NoContent, NoDecision)}
    \cup {Outcome("content", c, NoDecision) : c \in LedgerContents}

InitLedger ==
  /\ InitAssistant
  /\ InitSpeaker(FALSE)
  /\ InitMicrophone
  /\ InitClient

LedgerCall ==
  /\ stamp < MaxCalls
  /\ \E in \in LedgerInputs, o \in LedgerOutcomes :
       LET r == call_gpt_api(history, in[1], in[2], stamp + 1, o) IN
         /\ current_state_name' = in[1]
         /\ stamp' = stamp + 1
         /\ history' = r.history
         /\ nc_run' = run_after(nc_run, r.response)
         /\ asked' = Append(asked, Asked(in[1], NoVoice, in[2], now))
  /\ UNCHANGED <<audioVars, runVars>>

NextLedger == LedgerCall

SpecLedger == InitLedger /\ [][NextLedger]_vars

----------------------------------------------------------------------------
(* SpecTimers: timer arms and check_timers calls in any order.  Both happen *)
(* on run()'s thread, so neither is interrupted by the other.              *)

\* The timer keys of the decisions: two names, and a null, zero, negative and
\* positive duration.
TimerDecisions ==
  {Decision("None", nm, d) : nm \in {"", "Pasta", "Egg"}, d \in {-1, 0, 1, 2}}

\* run(), lines 394-411, for a decision call_gpt_api returned
TimerArm ==
  /\ stamp < MaxArms
  /\ \E d \in TimerDecisions :
       LET r == Response(TRUE, Content(TRUE, "INSTRUCTION_UPDATE", "", 0, 0), d) IN
         /\ response' = r
         /\ active_timers' = armed_timers(active_timers, r, now, stamp + 1)
  /\ stamp' = stamp + 1
  /\ UNCHANGED <<history, current_state_name, nc_run, asked, reported, pc, user_voice,
                 image_data, captured, timer_notification, listen_start, now, audioVars>>

\* check_timers(), lines 321-333
TimerPoll ==
  /\ active_timers' = remaining_timers(active_timers, now)
  /\ reported' = reported \o expired_timers(active_timers, now)
  /\ timer_notification' = expired_names(active_timers, now)
  /\ UNCHANGED <<ledgerVars, pc, user_voice, image_data, captured, response, listen_start,
                 now, audioVars>>

InitTimers ==
  /\ InitAssistant
  /\ InitSpeaker(FALSE)
  /\ InitMicrophone
  /\ InitClient

NextTimers == TimerArm \/ TimerPoll \/ Tick

SpecTimers == InitTimers /\ [][NextTimers]_vars

----------------------------------------------------------------------------
(* Helpers for the statements below. *)

IsUser(e) == e.role = "user"
IsAssistant(e) == e.role = "assistant"

\* The turn context of a user entry (its first item).
ContextOf(e) == e.content[1]

\* A user entry recorded in ACTIVE_COOKING.
IsCookingEntry(e) == IsUser(e) /\ ContextOf(e).current_state = "ACTIVE_COOKING"

\* The call that recorded the user entry e (the call its timestamp numbers)
\* was passed image data, which user_message put into the entry.
WasGivenImage(e) == truthy(asked[ContextOf(e).timestamp].image)

\* The placeholder items of an entry.
Placeholders(e) == SelectSeq(e.content, LAMBDA it : it.text = PLACEHOLDER)

\* Ledger positions of the ACTIVE_COOKING image entries that still carry the
\* image, and of those that no longer do.
CarryingImage(h) == {i \in 1..Len(h) : IsCookingEntry(h[i]) /\ has_image(h[i])}
StrippedImage(h) ==
  {i \in 1..Len(h) : IsCookingEntry(h[i]) /\ WasGivenImage(h[i]) /\ ~has_image(h[i])}

\* An assistant entry with the no-change status and speech.
IsSpokenNoChange(e) ==
  /\ IsAssistant(e)
  /\ e.reply.json
  /\ e.reply.status = NO_CHANGE
  /\ e.reply.speech_output # ""

\* An utterance that was queued and has not finished playing: it is on the
\* queue, or the worker holds it and aplay has not ended.
UtterancePending ==
  \/ \E k \in 1..Len(spk_queue) : spk_queue[k] # 0
  \/ spk_pc \in {"pause", "set_playing", "piper", "aplay"}

\* The table keys reached from the states S by following valid_next_states.
RECURSIVE ReachableStates(_)
ReachableStates(S) ==
  LET more == S \cup UNION {valid_next_states(s) : s \in S \cap StateNames} IN
    IF more = S THEN S ELSE ReachableStates(more)

\* The fragments of a text that read_text joined.
Fragments(text) == SelectSeq(text, LAMBDA x : x # SPACE)

\* The voice fragments, and the timer names, carried by a sequence of calls.
RECURSIVE AskedFrags(_)
AskedFrags(a) ==
  IF a = <<>> THEN <<>> ELSE Fragments(a[1].user_voice.frags) \o AskedFrags(Tail(a))

RECURSIVE AskedTimers(_)
AskedTimers(a) ==
  IF a = <<>> THEN <<>> ELSE a[1].user_voice.timers \o AskedTimers(Tail(a))

\* The input a cycle has taken and not yet passed to the oracle.
PendingVoice == IF pc \in {"capture", "call"} THEN user_voice ELSE NoVoice

----------------------------------------------------------------------------
(* The claims. *)

\* C1: in run(), the current state changes only to a member of the current
\* state's valid_next_states; a decision naming any other state leaves
\* current_state_name unchanged.
C1_OnlyValidTransitions ==
  [][current_state_name' # current_state_name
       => current_state_name' \in valid_next_states(current_state_name)]_vars

\* C2: when the decision being applied names FINISHED as next_state, the loop
\* stops: the step that applies it leaves the while loop and releases the
\* camera, so that no listen, capture or oracle call follows.
C2_FinishedStopsLoop ==
  [][(pc = "speak" /\ response.next_state = "FINISHED" /\ pc' # "speak")
       => pc' = "released"]_vars

\* C3: as wired by CookingAssistant, the microphone worker is never inside its
\* listen call while the speaker worker is playing an utterance.
C3_NoCaptureWhilePlaying == ~(mic_pc = "listen" /\ spk_pc = "aplay")

\* C4: a cycle whose oracle call fails leaves the ledger and current_state_name
\* exactly as they were before the cycle began: when the call returns None,
\* the ledger is without the one entry the call had appended for its request,
\* holds no entry stamped by that call, and the state is what it was.
C4_FailedCallLeavesLedger ==
  [][(pc = "await" /\ pc' \notin {"await", "speak"})
       => /\ Len(history') = Len(history) - 1
          /\ \A k \in 1..Len(history') :
               ~(IsUser(history'[k]) /\ ContextOf(history'[k]).timestamp = stamp)
          /\ current_state_name' = current_state_name]_vars

\* C5: after N >= 2 successful no-change, no-speech turns in a row the ledger
\* ends with the latest user entry followed by one assistant entry whose
\* monitor_count is N and whose debug_note is "MONITORING_NO_CHANGE * N", and
\* no user entry of the N - 1 earlier turns of the run is left.
C5_RunCollapsesToCount ==
  nc_run >= 2 =>
    LET n == Len(history) IN
      /\ n >= 2
      /\ IsAssistant(history[n])
      /\ history[n].reply.monitor_count = nc_run
      /\ history[n].reply.debug_note = nc_run
      /\ IsUser(history[n - 1])
      /\ ContextOf(history[n - 1]).timestamp = stamp
      /\ \A i \in 1..(n - 2) :
           IsUser(history[i]) => ContextOf(history[i]).timestamp <= stamp - nc_run

\* C6: a no-change assistant entry with non-empty speech carries no counter
\* tag and stays in the ledger over every later append.
C6_SpokenNoChangeStays ==
  [][\A i \in 1..Len(history) :
       IsSpokenNoChange(history[i]) =>
         /\ history[i].reply.monitor_count = 0
         /\ history[i].reply.debug_note = 0
         /\ \E j \in 1..Len(history') : history'[j] = history[i]]_vars

\* C7: at most 3 ACTIVE_COOKING user entries carry an image, they are the most
\* recent ACTIVE_COOKING image entries of the ledger, and every earlier one
\* carries the placeholder (once) instead of its image.
C7_KeepsThreeNewestImages ==
  /\ Cardinality(CarryingImage(history)) <= 3
  /\ \A i \in StrippedImage(history), j \in CarryingImage(history) : i < j
  /\ \A i \in StrippedImage(history) : Len(Placeholders(history[i])) = 1
  /\ \A i \in CarryingImage(history) : Len(Placeholders(history[i])) = 0

\* C7 witness: a fourth image turn in ACTIVE_COOKING has been appended: three
\* entries carry their image and the oldest carries the placeholder.
C7_Witness ==
  /\ Cardinality(CarryingImage(history)) = 3
  /\ Cardinality(StrippedImage(history)) >= 1

\* C8: from the enqueueing of utterances until the last of them has finished
\* playing, is_playing() returns true.
C8_PlayingWhilePending == UtterancePending => is_playing

\* C9: with a microphone attached, the pause flag is set when an utterance
\* starts playing and is not cleared while utterances are still queued.
C9_PauseSpansQueue ==
  [][/\ (spk_pc' = "aplay" => pause_event')
     /\ ((pause_event /\ spk_queue # <<>>) => pause_event')]_vars

\* C10: while the microphone is paused, has_text() returns false.
C10_PausedHasNoText == pause_event => ~has_text

\* C11: a check_timers call returns every entry whose deadline has passed,
\* once, and removes it; every other entry stays, once; the names returned are
\* those of the returned entries; and no entry is returned by two polls.
\* Entries with the same name are told apart by their id.
C11_PollReturnsExpiredOnce ==
  [][TimerPoll =>
       LET new == SubSeq(reported', Len(reported) + 1, Len(reported'))
           Returned(e) == {j \in 1..Len(new) : new[j].id = e.id}
           Kept(e) == {j \in 1..Len(active_timers') : active_timers'[j] = e}
       IN  /\ \A k \in 1..Len(active_timers) :
                LET e == active_timers[k] IN
                  IF e.end_time <= now
                  THEN Cardinality(Returned(e)) = 1 /\ Kept(e) = {}
                  ELSE Returned(e) = {} /\ Cardinality(Kept(e)) = 1
           /\ Len(active_timers') + Len(new) = Len(active_timers)
           /\ Len(timer_notification') = Len(new)
           /\ \A j \in 1..Len(new) : timer_notification'[j] = new[j].name
           /\ \A i, j \in 1..Len(reported') :
                i # j => reported'[i].id # reported'[j].id]_vars

\* C11 witness: two entries armed with the same name have both been returned,
\* and an entry armed before one of them is still waiting for its deadline.
C11_Witness ==
  /\ \E i, j \in 1..Len(reported) :
       i # j /\ reported[i].name = reported[j].name
  /\ \E k \in 1..Len(active_timers), j \in 1..Len(reported) :
       active_timers[k].id < reported[j].id /\ active_timers[k].end_time > now

\* C12: the utterances passed to play_text are handled by the worker one at a
\* time in the order they were enqueued, none left out and none twice: the
\* utterances _speak_one has finished, the one it is working on, those on the
\* queue and those play_text has still to put are, in this order, the
\* utterances 1, 2, ... in the order they were passed.
C12_PlayedInQueueOrder ==
  spoken \o (IF spk_text # 0 THEN <<spk_text>> ELSE <<>>)
         \o SelectSeq(spk_queue, LAMBDA t : t # 0) \o cl_pending
    = [k \in 1..uttered |-> k]

\* C12 witness: three utterances were passed, in more than one call or as a
\* list; two have been played and the third is being played.
C12_Witness == Len(spoken) = 2 /\ spk_pc = "aplay" /\ spk_text = 3

\* C13: an oracle call made in a state other than ACTIVE_COOKING carries voice
\* text that is not empty or a timer notification; and every voice fragment
\* heard and every timer returned by check_timers is carried by exactly one
\* call, or is waiting (on the microphone's queue, or in the cycle that took it)
\* for the one call it will be carried by.
C13_OneCallPerArrival ==
  /\ \A k \in 1..Len(asked) :
       asked[k].state # "ACTIVE_COOKING" =>
         \/ asked[k].user_voice.kind = "voice" /\ asked[k].user_voice.frags # <<>>
         \/ asked[k].user_voice.kind = "timer" /\ asked[k].user_voice.timers # <<>>
  /\ AskedFrags(asked) \o Fragments(PendingVoice.frags) \o mic_queue
       = [k \in 1..heard |-> k]
  /\ AskedTimers(asked) \o PendingVoice.timers
       = [k \in 1..Len(reported) |-> reported[k].name]

\* C13 witness: the first call was made in START for voice text, the second in
\* a state other than ACTIVE_COOKING for a timer notification.
C13_Witness ==
  /\ Len(asked) = 2
  /\ asked[1].state = "START" /\ asked[1].user_voice.kind = "voice"
  /\ asked[2].state # "ACTIVE_COOKING" /\ asked[2].user_voice.kind = "timer"

\* C14: after close(), what was enqueued before it is still played and nothing
\* passed to play_text afterwards is accepted: no utterance is on the queue
\* behind the sentinel, and once the worker has taken the sentinel and stopped
\* every utterance accepted has been played and the queue holds none.
C14_CloseDrainsAndRefuses ==
  /\ \A i, j \in 1..Len(spk_queue) :
       (i < j /\ spk_queue[i] = 0) => spk_queue[j] = 0
  /\ spk_pc = "stopped" =>
       /\ \A k \in 1..Len(spk_queue) : spk_queue[k] = 0
       /\ spoken \o cl_pending = [k \in 1..uttered |-> k]

\* C15: run() adds an entry to active_timers only for a decision that carries a
\* timer name and a positive timer duration.
C15_ArmsOnlyPositiveDurations ==
  [][Len(active_timers') > Len(active_timers)
       => (response'.timer_name # "" /\ response'.timer_duration > 0)]_vars

\* C16: the pruning pass run again on the ledger, which the last user append
\* has pruned, changes nothing.
C16_PruneTwiceChangesNothing ==
  _prune_active_cooking_images(history) = history

\* C16 witness: the pass has just stripped an image: the last entry is the
\* user entry whose append took the ACTIVE_COOKING images past three.
C16_Witness ==
  /\ history # <<>>
  /\ IsUser(history[Len(history)])
  /\ Len(history) \in CarryingImage(history)
  /\ StrippedImage(history) # {}

\* C17: in the state table CookingAssistant() builds, the state it starts in
\* and every name in a valid_next_states list are keys of the table, FINISHED
\* is the only state whose list is empty, and FINISHED is reached from START by
\* following the lists.
C17_TableIsClosed ==
  /\ current_state_name \in StateNames
  /\ \A s \in StateNames : valid_next_states(s) \subseteq StateNames
  /\ \A s \in StateNames : (valid_next_states(s) = {}) <=> (s = "FINISHED")
  /\ "FINISHED" \in ReachableStates({"START"})

\* C17 witness: CookingAssistant() has built the table and stands in START,
\* from which the lists lead through every state of the table.
C17_Witness ==
  /\ current_state_name = "START"
  /\ pc = "start"
  /\ ReachableStates({current_state_name}) = StateNames

\* C18: a cycle calls capture_image() if and only if its state requires an
\* image and its input is not a timer notification; so the oracle call of a
\* cycle carries what the capture returned, a call for a timer notification
\* carries no image, and a call in ACTIVE_COOKING without a timer notification
\* carries the cycle's capture, voice or no voice.
C18_CaptureIffRequiredNoTimer ==
  [][/\ (pc = "capture" /\ pc' # "capture") =>
          ((captured' # "no") <=>
             (requires_image(current_state_name) /\ user_voice.kind # "timer"))
     /\ (stamp' # stamp) =>
          /\ (captured = "image") <=> (image_data = JPEG)
          /\ (captured = "empty") <=> (image_data = EMPTY_IMAGE)
          /\ (captured \in {"no", "none"}) <=> (image_data = NO_IMAGE)
          /\ user_voice.kind = "timer" => image_data = NO_IMAGE
          /\ (current_state_name = "ACTIVE_COOKING" /\ user_voice.kind # "timer")
               => captured # "no"]_vars

\* C18 witness: a silent ACTIVE_COOKING cycle has called the oracle with its
\* fresh capture.
C18_Witness ==
  \E k \in 1..Len(asked) :
    /\ asked[k].state = "ACTIVE_COOKING"
    /\ asked[k].user_voice = NoVoice
    /\ asked[k].image = JPEG

\* C19: the oracle call that follows an ACTIVE_COOKING cycle whose decision was
\* MONITORING_NO_CHANGE with empty speech and left the state as it was is made
\* only after the idle delay (one unit of the clock) has passed since that
\* cycle's call, whatever input is buffered.
C19_IdleDelayAfterNoChange ==
  [][(/\ stamp' # stamp
      /\ asked # <<>>
      /\ asked[Len(asked)].state = "ACTIVE_COOKING"
      /\ current_state_name = "ACTIVE_COOKING"
      /\ nc_run >= 1)
       => now > asked[Len(asked)].at]_vars

\* C20: over a call, whose user entry has been appended (and the ledger pruned)
\* to give h: an assistant append that merges (the new entry carries a
\* counter) deletes exactly the previous assistant entry and the user entry
\* directly before it, and keeps the just-appended user entry and every older
\* entry as they were, in order; an assistant append that does not merge keeps
\* all of h; a call that appends no assistant entry leaves h.
C20_MergeDeletesOnePair ==
  [][stamp' # stamp =>
       LET h == update_history_user(history,
                  user_message(current_state_name', asked'[Len(asked')].image, stamp'))
           n == Len(h)
           m == Len(history')
       IN  \/ history' = h
           \/ /\ m = n + 1
              /\ SubSeq(history', 1, n) = h
              /\ IsAssistant(history'[m])
              /\ history'[m].reply.monitor_count = 0
           \/ /\ n >= 3
              /\ m = n - 1
              /\ IsUser(h[n - 2]) /\ IsAssistant(h[n - 1])
              /\ SubSeq(history', 1, n - 3) = SubSeq(h, 1, n - 3)
              /\ history'[m - 1] = h[n]
              /\ IsAssistant(history'[m])
              /\ history'[m].reply.monitor_count >= 2]_vars

\* C20 witness: a merge has been made in a ledger that held an older turn
\* before the pair it deleted.
C20_Witness ==
  /\ Len(history) >= 4
  /\ IsAssistant(history[Len(history)])
  /\ history[Len(history)].reply.monitor_count >= 2

\* C21: over a call, whose pruning pass runs when its user entry has been
\* appended: every entry the ledger held before stays at its position (but the
\* pair a merge deletes behind the new entry), followed by the new entry with
\* its image; an assistant entry, a user entry of another state than
\* ACTIVE_COOKING and a user entry without an image are left as they are; an
\* entry that is changed loses its image for the placeholder and keeps its
\* context; and no changed entry is more recent than an ACTIVE_COOKING image
\* entry that is kept.
C21_PruneTouchesOnlyOldestImages ==
  [][stamp' # stamp =>
       LET n == Len(history)
           keep == IF Len(history') = n THEN n - 2 ELSE n
           Changed == {i \in 1..keep : history'[i] # history[i]}
       IN  /\ Len(history') >= keep + 1
           /\ history'[keep + 1] =
                UserEntry(user_message(current_state_name',
                                       asked'[Len(asked')].image, stamp'))
           /\ \A i \in 1..keep :
                /\ history'[i].role = history[i].role
                /\ history'[i].reply = history[i].reply
                /\ \/ history'[i] = history[i]
                   \/ IsCookingEntry(history[i]) /\ has_image(history[i])
           /\ \A i \in Changed :
                /\ ContextOf(history'[i]) = ContextOf(history[i])
                /\ ~has_image(history'[i])
                /\ Len(Placeholders(history'[i])) = 1
           /\ \A i \in Changed, j \in CarryingImage(history') : i < j]_vars

\* C21 witness: the pass has stripped the image of the first entry in a
\* ledger where assistant entries stand between the image entries.
C21_Witness ==
  /\ 1 \in StrippedImage(history)
  /\ \E i, j \in 1..Len(history) :
       i < j /\ IsAssistant(history[i]) /\ j \in CarryingImage(history)

\* The timer armed by oracle call id is in active_timers and its deadline has come.
ArmedDue(id) ==
  \E k \in 1..Len(active_timers) :
    active_timers[k].id = id /\ now >= active_timers[k].end_time

\* The timer armed by oracle call id has been returned by a poll and its name
\* was in the user_voice of an oracle call made at or after its deadline.
SentTimer(id) ==
  \E k \in 1..Len(reported) :
    /\ reported[k].id = id
    /\ k <= Len(AskedTimers(asked))
    /\ AskedTimers(asked)[k] = reported[k].name
    /\ \E c \in 1..Len(asked) :
         /\ asked[c].user_voice.kind = "timer"
         /\ asked[c].at >= reported[k].end_time
         /\ \E n \in 1..Len(asked[c].user_voice.timers) :
              asked[c].user_voice.timers[n] = reported[k].name

\* The timer armed by oracle call id is due or has been returned by a poll,
\* and has not been sent.
TimerOutstanding(id) ==
  /\ ArmedDue(id) \/ \E k \in 1..Len(reported) : reported[k].id = id
  /\ ~SentTimer(id)

\* The model explores no further oracle call: run() is at its call with the
\* last explored call made.
CallsExhausted == pc = "call" /\ stamp = MaxTurns

\* C22: a poll removes every timer whose deadline has come, returns it and puts
\* its name into the notification that becomes user_voice, in ACTIVE_COOKING
\* and in the reactive wait alike, and the call that follows passes that
\* user_voice to the oracle; and while run() keeps cycling, again and again
\* no timer whose deadline has come is left unsent (a timer stays due until a
\* poll returns it, so every due timer is eventually sent).
C22_DueTimerIsEventuallySent ==
  /\ [][/\ (pc \in {"ac_timers", "re_timers"} /\ pc' # pc) =>
            (\A k \in 1..Len(active_timers) :
               (now >= active_timers[k].end_time) =>
                 (/\ \A j \in 1..Len(active_timers') : active_timers'[j] # active_timers[k]
                  /\ \E j \in (Len(reported) + 1)..Len(reported') :
                       reported'[j] = active_timers[k]
                  /\ user_voice'.kind = "timer"
                  /\ \E n \in 1..Len(user_voice'.timers) :
                       user_voice'.timers[n] = active_timers[k].name
                  /\ pc' = "capture"))
        /\ (pc = "capture" /\ user_voice.kind = "timer" /\ pc' # pc) =>
            (pc' = "call" /\ user_voice' = user_voice)
        /\ (pc = "call" /\ stamp' # stamp) =>
            (asked'[Len(asked')].user_voice = user_voice)]_vars
  /\ []<>(CallsExhausted \/ \A id \in 1..MaxTurns : ~TimerOutstanding(id))

\* C22 witness: a timer armed in one cycle has been sent to the oracle by a
\* later cycle of a state other than ACTIVE_COOKING, after a listen of that
\* state timed out.
C22_Witness ==
  /\ SentTimer(1)
  /\ asked[Len(asked)].state # "ACTIVE_COOKING"
  /\ asked[Len(asked)].user_voice.kind = "timer"
  /\ reported[1].end_time > asked[1].at

\* C23: current_state_name is a key of the state table in every state of
\* run(), and the step that applies a decision whose next_state is missing or
\* is not a key of the table leaves current_state_name as it was and goes on
\* to the top of the loop.
C23_StateStaysInTable ==
  /\ current_state_name \in StateNames
  /\ [][/\ current_state_name' \in StateNames
        /\ (pc = "speak" /\ pc' # pc /\ response.next_state \notin StateNames) =>
             (/\ current_state_name' = current_state_name
              /\ pc' = IF current_state_name = "ACTIVE_COOKING"
                       THEN "ac_timers" ELSE "re_timers")]_vars

\* C23 witness: an oracle call made in START has succeeded and run() is back
\* in its reactive wait, still in START; no decision of the oracle of
\* SpecCycle names START, so the decision had no next_state or an unknown one.
C23_Witness ==
  /\ current_state_name = "START"
  /\ pc \in {"re_timers", "re_listen"}
  /\ history # <<>>
  /\ IsAssistant(history[Len(history)])
  /\ asked[Len(asked)].state = "START"

\* The ledger h is empty or starts with a user entry, and each of its
\* assistant entries comes directly after a user entry.
LedgerShape(h) ==
  /\ h = <<>> \/ IsUser(h[1])
  /\ \A i \in 1..Len(h) : IsAssistant(h[i]) => (i > 1 /\ IsUser(h[i - 1]))

\* C24: after any sequence of successful calls, failed calls and merges the
\* ledger is empty or starts with a user entry and every assistant entry
\* directly follows a user entry; and in a call that merges (the only one
\* that leaves the ledger as long as it was) the entry deleted at position -3,
\* the one before the previous assistant entry, is a user entry.
C24_AssistantFollowsUser ==
  /\ []LedgerShape(history)
  /\ [][(stamp' # stamp /\ Len(history') = Len(history)) =>
          (/\ Len(history) >= 2
           /\ IsAssistant(history[Len(history)])
           /\ IsUser(history[Len(history) - 1])
           /\ \A k \in 1..Len(history') : history'[k] # history[Len(history) - 1]
           /\ IsAssistant(history'[Len(history')])
           /\ history'[Len(history')].reply.monitor_count >= 2)]_vars

\* C24 witness: a failed call left its user entry at the head of the ledger,
\* later calls succeeded and the last one merged.
C24_Witness ==
  /\ Len(history) >= 3
  /\ IsUser(history[1]) /\ IsUser(history[2])
  /\ IsAssistant(history[Len(history)])
  /\ history[Len(history)].reply.monitor_count >= 2

\* s is an initial part of t.
IsPrefix(s, t) == Len(s) <= Len(t) /\ SubSeq(t, 1, Len(s)) = s

\* C25: the fragments passed to the oracle, those a listen has returned in
\* this cycle, those read_text has taken and those still in the queue are,
\* in this order, the fragments the worker has put, each once and in arrival
\* order; when read_text returns, the queue is empty and its text is every
\* fragment put so far and not returned before, in arrival order with one
\* separator between each two; and in a cycle whose poll found an expired
\* timer, in ACTIVE_COOKING or elsewhere, nothing is taken from the queue, so
\* its fragments wait for the listen of a later cycle.
C25_FragmentsDeliveredOnce ==
  /\ [](AskedFrags(asked) \o Fragments(PendingVoice.frags) \o messages \o mic_queue
          = [k \in 1..heard |-> k])
  /\ [][/\ (pc \in {"ac_read", "re_read"} /\ pc' = "capture") =>
             (/\ user_voice'.kind = "voice"
              /\ mic_queue' = <<>>
              /\ AskedFrags(asked) \o Fragments(user_voice'.frags) = [k \in 1..heard |-> k]
              /\ Len(user_voice'.frags) = 2 * Len(Fragments(user_voice'.frags)) - 1
              /\ \A k \in 1..Len(user_voice'.frags) :
                   (user_voice'.frags[k] = SPACE) <=> (k % 2 = 0))
        /\ (pc \in {"ac_timers", "re_timers"} /\ user_voice'.kind = "timer") =>
             (pc' = "capture" /\ mic_queue' = mic_queue)
        /\ (user_voice.kind = "timer") =>
             (IsPrefix(mic_queue, mic_queue') /\ messages' = <<>>)]_vars

\* C25 witness: the last oracle call was made in ACTIVE_COOKING for an expired
\* timer, without listening, and the listen of a later cycle has returned a
\* fragment.
C25_Witness ==
  /\ asked # <<>>
  /\ asked[Len(asked)].state = "ACTIVE_COOKING"
  /\ asked[Len(asked)].user_voice.kind = "timer"
  /\ current_state_name = "ACTIVE_COOKING"
  /\ PendingVoice.kind = "voice"
  /\ PendingVoice.frags # <<>>

====
